---- MODULE Spec2Model ----
(***************************************************************************)
(* Model of the GraphQL demo server: the in-memory UserList (FakeData.js), *)
(* the resolvers of schema/resolvers.js, and the module-level              *)
(* usersByIdLoader = new DataLoader(getUsersByIds) that User.friends       *)
(* calls.  The loader is the `dataloader` package with its default         *)
(* options (batching on, memoisation cache on, no maximal batch size),     *)
(* which is how resolvers.js line 69 constructs it.                        *)
(***************************************************************************)
EXTENDS Integers, Sequences, FiniteSets, TLC

\* ------------------------------------------------------------------ bounds

\* Number of query-resolver executions (users, user, nested friends) in a run.
MaxQueries == 3

\* Number of mutation executions in a run.
MaxMutations == 1

\* Number of mutation executions in a run of requests without friends.
MaxDataMutations == 3

\* Number of mutation executions in a run that deletes every user.
MaxDrainMutations == 9

\* Number of query-resolver executions in a run over other data files.
MaxQueriesK == 2

\* Number of query-resolver executions in a run with fair scheduling.
MaxLiveQueries == 2

\* ------------------------------------------------------------------ values

Range(s) == {s[i] : i \in 1..Len(s)}

\* What a promise is settled with: a reference to a user object, or the
\* TypeError object created for one failed batch.  The missing-indicator
\* (null) is a value the loader could hand out; NoValue is "not settled".
Entity(oid) == [kind |-> "entity", ref |-> oid]
Failure(b) == [kind |-> "error", ref |-> b]
Missing == [kind |-> "missing", ref |-> 0]
NoValue == [kind |-> "none", ref |-> 0]

\* A string is the sequence of its characters.  An argument of type ID
\* reaches a resolver as a string.
DigitChars == <<"0", "1", "2", "3", "4", "5", "6", "7", "8", "9">>
DigitOf(ch) == (CHOOSE d \in 1..Len(DigitChars) : DigitChars[d] = ch) - 1

\* Number(string): the empty string is 0, a string of decimal digits is its
\* value (leading zeros allowed), any other string of the inputs is NaN.  NaN
\* is a number that equals no id.
NaN == 0 - 1
RECURSIVE Decimal(_)
Decimal(str) ==
  IF str = <<>> THEN 0
  ELSE 10 * Decimal(SubSeq(str, 1, Len(str) - 1)) + DigitOf(str[Len(str)])
Number(str) ==
  IF \A i \in 1..Len(str) : str[i] \in Range(DigitChars)
  THEN Decimal(str) ELSE NaN

\* --------------------------------------------------------------- FakeData

\* The user objects of FakeData.js, in the order of the array literal.  An
\* optional property of the source (friends, role, age, nationality) is a
\* field the record has or has not.
FakeUsers ==
  << [id |-> 1, name |-> "John", username |-> "john", age |-> 20,
      nationality |-> "CANADA", friends |-> <<2, 5>>],
     [id |-> 2, name |-> "Pedro", username |-> "PedroTech", age |-> 20,
      nationality |-> "BRAZIL"],
     [id |-> 3, name |-> "Sarah", username |-> "cameron", age |-> 25,
      nationality |-> "INDIA", friends |-> <<2>>],
     [id |-> 4, name |-> "Rafe", username |-> "rafe123", age |-> 60,
      nationality |-> "GERMANY", friends |-> <<3, 5>>],
     [id |-> 5, name |-> "Kelly", username |-> "kelly2019", age |-> 5,
      nationality |-> "CHILE"],
     [id |-> 6, name |-> "Andrew", username |-> "andrew001",
      role |-> "SUPERADMIN"],
     [id |-> 7, name |-> "Chris", username |-> "chris007", role |-> "ADMIN"],
     [id |-> 8, name |-> "Jaro", username |-> "huskylover64",
      role |-> "ADMIN"] >>

\* The movie objects of FakeData.js; no resolver changes the array.
MovieList ==
  << [id |-> 1, name |-> "Avengers Endgame", yearOfPublication |-> 2019,
      isInTheaters |-> TRUE],
     [id |-> 2, name |-> "Interstellar", yearOfPublication |-> 2007,
      isInTheaters |-> TRUE],
     [id |-> 3, name |-> "PedroTech The Movie", yearOfPublication |-> 2035,
      yearFirstAired |-> 2036],
     [id |-> 4, name |-> "Superbad", yearOfPublication |-> 2009,
      isInTheaters |-> TRUE],
     [id |-> 5, name |-> "American Pie 6", yearOfPublication |-> 2004,
      yearFirstAired |-> 2006] >>

VARIABLES
  objects,      \* the heap of user objects: object reference -> record
  UserList,     \* FakeData.UserList: a sequence of object references
  batches,      \* the heap of batch objects the loader has created
  loaderBatch,  \* usersByIdLoader._batch: a batch reference, 0 for null
  cacheMap,     \* usersByIdLoader._cacheMap: key -> promise
  promises,     \* the heap of promises handed out by load()
  scheduled,    \* dispatches queued by the batch schedule function
  inflight,     \* the batch whose getUsersByIds promise is not yet consumed
  calls,        \* log of the User.friends resolver calls
  dispatchLog,  \* log of the dispatchBatch executions (batch references)
  fetchLog,     \* log of the getUsersByIds invocations
  nQueries,     \* number of query fields executed with a friends selection
  nMut,         \* number of mutations executed
  budget,       \* the queries and the mutations the clients send in the run
  response      \* what the last root resolver (or the server) answered

vars == <<objects, UserList, batches, loaderBatch, cacheMap, promises,
          scheduled, inflight, calls, dispatchLog, fetchLog, nQueries, nMut,
          budget, response>>

dataVars == <<objects, UserList>>
loaderVars == <<batches, loaderBatch, cacheMap, promises, scheduled>>
logVars == <<dispatchLog, fetchLog>>

\* ------------------------------------------------------------- getUsersByIds

\* UserList.filter((user) => ids.includes(user.id)): the users of UserList
\* whose id is among ids, in UserList order.
FilterByIds(list, objs, ids) ==
  SelectSeq(list, LAMBDA o : objs[o].id \in Range(ids))

getUsersByIds(ids) == FilterByIds(UserList, objects, ids)

\* ------------------------------------------------------------- the loader

\* The loader's mutable state, threaded through load/loadMany.
LoaderState ==
  [batches |-> batches, batch |-> loaderBatch, cacheMap |-> cacheMap,
   promises |-> promises, scheduled |-> scheduled]

SetLoader(S) ==
  /\ batches' = S.batches
  /\ loaderBatch' = S.batch
  /\ cacheMap' = S.cacheMap
  /\ promises' = S.promises
  /\ scheduled' = S.scheduled

NewBatch == [hasDispatched |-> FALSE, keys |-> <<>>, callbacks |-> <<>>,
             cacheHits |-> <<>>]

\* A getCurrentBatch that does not look at hasDispatched: it keeps using the
\* loader's batch after its dispatch.
getCurrentBatchReuse(S) ==
  IF S.batch # 0
  THEN S
  ELSE [S EXCEPT !.batches = Append(@, NewBatch),
                 !.batch = Len(S.batches) + 1,
                 !.scheduled = Append(@, Len(S.batches) + 1)]

\* getCurrentBatch: the existing batch when there is one that has not been
\* dispatched (the default maxBatchSize is Infinity); otherwise a new batch,
\* stored on the loader and scheduled for dispatch.
getCurrentBatch(S) ==
  IF S.batch # 0 /\ ~S.batches[S.batch].hasDispatched
  THEN S
  ELSE [S EXCEPT !.batches = Append(@, NewBatch),
                 !.batch = Len(S.batches) + 1,
                 !.scheduled = Append(@, Len(S.batches) + 1)]

MapSet(m, k, v) == [x \in DOMAIN m \cup {k} |-> IF x = k THEN v ELSE m[x]]
MapDelete(m, ks) == [x \in DOMAIN m \ ks |-> m[x]]

NewPromise(key) ==
  [key |-> key, state |-> "pending", value |-> NoValue, follows |-> 0]

\* A load that never consults the cache: every request of a key is queued as
\* a key of the batch.
loadUncached(S, key) ==
  LET S1 == getCurrentBatch(S)
      b == S1.batch
      p == Len(S1.promises) + 1
  IN [S1 EXCEPT !.promises = Append(@, NewPromise(key)),
                !.batches[b].keys = Append(@, key),
                !.batches[b].callbacks = Append(@, p),
                !.cacheMap = MapSet(@, key, p)]

\* DataLoader.load(key): the new promise is the last one of the result's
\* promises.  A cache hit registers a handle that is resolved with the cached
\* promise when the batch is dispatched; a miss appends the key and the
\* promise's callbacks to the batch and caches the promise.
load(S, key) ==
  LET S1 == getCurrentBatch(S)
      b == S1.batch
      p == Len(S1.promises) + 1
  IN IF key \in DOMAIN S1.cacheMap
     THEN [S1 EXCEPT !.promises = Append(@, NewPromise(key)),
                     !.batches[b].cacheHits =
                        Append(@, [handle |-> p, cached |-> S1.cacheMap[key]])]
     ELSE [S1 EXCEPT !.promises = Append(@, NewPromise(key)),
                     !.batches[b].keys = Append(@, key),
                     !.batches[b].callbacks = Append(@, p),
                     !.cacheMap = MapSet(@, key, p)]

\* DataLoader.loadMany(keys): load(keys[i]) for i = 0 .. keys.length-1, in
\* order; R.handles collects the promises.
RECURSIVE loadManyFrom(_, _, _)
loadManyFrom(R, keys, i) ==
  IF i > Len(keys) THEN R
  ELSE LET S1 == load(R.S, keys[i])
       IN loadManyFrom([S |-> S1, handles |-> Append(R.handles, Len(S1.promises))],
                       keys, i + 1)

\* A loadMany that loads every distinct key once, dropping the repetitions.
loadManyDistinct(S, keys) ==
  loadManyFrom([S |-> S, handles |-> <<>>],
               SelectSeq([i \in 1..Len(keys) |->
                            IF \E j \in 1..(i - 1) : keys[j] = keys[i]
                            THEN 0 ELSE keys[i]],
                         LAMBDA k : k # 0),
               1)

loadMany(S, keys) == loadManyFrom([S |-> S, handles |-> <<>>], keys, 1)

\* The state and value of a promise: a handle resolved with another promise
\* follows that promise.
StateOf(ps, p) ==
  IF ps[p].follows # 0 THEN ps[ps[p].follows].state ELSE ps[p].state
ValueOf(ps, p) ==
  IF ps[p].follows # 0 THEN ps[ps[p].follows].value ELSE ps[p].value

\* resolveCacheHits(batch): every cache-hit handle of the batch is resolved
\* with its cached promise.
resolveCacheHits(ps, batch) ==
  [p \in 1..Len(ps) |->
     IF \E j \in 1..Len(batch.cacheHits) : batch.cacheHits[j].handle = p
     THEN LET j == CHOOSE j \in 1..Len(batch.cacheHits) :
                     batch.cacheHits[j].handle = p
          IN [ps[p] EXCEPT !.follows = batch.cacheHits[j].cached]
     ELSE ps[p]]

\* A Promise.all whose handles are wrapped in .catch(() => null).
PromiseAllNull(cs, ps) ==
  [c \in 1..Len(cs) |->
     IF ~cs[c].settled
        /\ \A i \in 1..Len(cs[c].handles) : StateOf(ps, cs[c].handles[i]) # "pending"
     THEN [cs[c] EXCEPT !.settled = TRUE,
                        !.result = [i \in 1..Len(cs[c].handles) |->
                                      IF StateOf(ps, cs[c].handles[i]) = "rejected"
                                      THEN Missing
                                      ELSE ValueOf(ps, cs[c].handles[i])]]
     ELSE cs[c]]

\* Promise.all over the handles of loadMany, each wrapped in
\* .catch(error => error): once every handle of a call is settled the call's
\* promise is fulfilled with the handles' values (a rejection's error being
\* the value at its position), in the order of the handles.
PromiseAll(cs, ps) ==
  [c \in 1..Len(cs) |->
     IF ~cs[c].settled
        /\ \A i \in 1..Len(cs[c].handles) : StateOf(ps, cs[c].handles[i]) # "pending"
     THEN [cs[c] EXCEPT !.settled = TRUE,
                        !.result = [i \in 1..Len(cs[c].handles) |->
                                      ValueOf(ps, cs[c].handles[i])]]
     ELSE cs[c]]

\* The loop of dispatchBatch's then-callback: callbacks[i].resolve(values[i])
\* (no value of getUsersByIds is an Error instance; a position past the end
\* of values reads undefined).
ResolveCallbacks(ps, batch, values) ==
  [p \in 1..Len(ps) |->
     IF \E i \in 1..Len(batch.callbacks) : batch.callbacks[i] = p
     THEN LET i == CHOOSE i \in 1..Len(batch.callbacks) : batch.callbacks[i] = p
          IN [ps[p] EXCEPT !.state = "fulfilled",
                           !.value = IF i <= Len(values) THEN Entity(values[i])
                                     ELSE Missing]
     ELSE ps[p]]

\* A failedDispatch that leaves the callbacks of the batch alone.
RejectCallbacksDropped(ps, batch, error) == ps

\* The loop of failedDispatch: callbacks[i].reject(error) for i < keys.length.
RejectCallbacks(ps, batch, error) ==
  [p \in 1..Len(ps) |->
     IF \E i \in 1..Len(batch.keys) :
          i <= Len(batch.callbacks) /\ batch.callbacks[i] = p
     THEN [ps[p] EXCEPT !.state = "rejected", !.value = error]
     ELSE ps[p]]

\* ---------------------------------------------------------------- resolvers

\* A __resolveType that takes every element for a User.
UserAdminResolveTypeUser(obj) == "User"

\* UserAdmin.__resolveType: "Admin" when obj.role is truthy (a role that is
\* not the empty string).
UserAdminResolveType(obj) ==
  IF "role" \in DOMAIN obj /\ obj.role # "" THEN "Admin" ELSE "User"

\* A __resolveType that takes every movie for a TheaterMovie.
MovieResolveTypeTheater(obj) == "TheaterMovie"

\* Movie.__resolveType: "TvMovie" when obj.yearFirstAired is truthy (a year
\* that is not 0).
MovieResolveType(obj) ==
  IF "yearFirstAired" \in DOMAIN obj /\ obj.yearFirstAired # 0
  THEN "TvMovie" ELSE "TheaterMovie"

\* What a call finds when it is made: the batches already dispatched, the
\* batch in flight (0 for none), and for each requested key whether UserList
\* holds a user with that id.
Seen(S, keys) ==
  [dispatched |-> {b \in 1..Len(S.batches) : S.batches[b].hasDispatched},
   inflight |-> IF inflight = <<>> THEN 0 ELSE inflight[1].batch,
   exists |-> [i \in 1..Len(keys) |->
                 \E j \in 1..Len(UserList) : objects[UserList[j]].id = keys[i]]]

\* A User.friends that asks the loader for its current batch before it looks
\* at the parent's friends.
friendsEager(R, parent, q, field) ==
  IF "friends" \notin DOMAIN objects[parent]
  THEN [S |-> getCurrentBatch(R.S),
        calls |-> Append(R.calls,
                    [parent |-> parent, query |-> q, field |-> field,
                     loaded |-> FALSE,
                     keys |-> <<>>, handles |-> <<>>, batch |-> 0,
                     seen |-> Seen(R.S, <<>>),
                     settled |-> TRUE, result |-> <<>>])]
  ELSE LET friendsIds == objects[parent].friends
           L == loadMany(R.S, friendsIds)
       IN [S |-> L.S,
           calls |-> Append(R.calls,
                       [parent |-> parent, query |-> q, field |-> field,
                        loaded |-> TRUE,
                        keys |-> friendsIds, handles |-> L.handles,
                        batch |-> IF friendsIds = <<>> THEN 0 ELSE L.S.batch,
                        seen |-> Seen(R.S, friendsIds),
                        settled |-> FALSE, result |-> <<>>])]

\* User.friends(parent), called for the field `field` of the q-th query: R
\* carries the loader
\* state and the call log.  The call's promise is the one loadMany returns;
\* a parent without friends gets [] at once and the loader is not touched.
friends(R, parent, q, field) ==
  IF "friends" \notin DOMAIN objects[parent]
  THEN [R EXCEPT !.calls =
          Append(@, [parent |-> parent, query |-> q, field |-> field,
                     loaded |-> FALSE,
                     keys |-> <<>>, handles |-> <<>>, batch |-> 0,
                     seen |-> Seen(R.S, <<>>),
                     settled |-> TRUE, result |-> <<>>])]
  ELSE LET friendsIds == objects[parent].friends
           L == loadMany(R.S, friendsIds)
       IN [S |-> L.S,
           calls |-> Append(R.calls,
                       [parent |-> parent, query |-> q, field |-> field,
                        loaded |-> TRUE,
                        keys |-> friendsIds, handles |-> L.handles,
                        batch |-> IF friendsIds = <<>> THEN 0 ELSE L.S.batch,
                        seen |-> Seen(R.S, friendsIds),
                        settled |-> FALSE, result |-> <<>>])]

\* The friends field of every element of a list that resolves to type User,
\* in list order, in one synchronous pass of the executor.
RECURSIVE friendsOfEach(_, _, _, _)
friendsOfEach(R, list, i, q) ==
  IF i > Len(list) THEN R
  ELSE friendsOfEach(IF UserAdminResolveType(objects[list[i]]) = "User"
                     THEN friends(R, list[i], q, "users") ELSE R,
                     list, i + 1, q)

\* The answer to a request: the root field executed, its argument, the value
\* the resolver returned (Missing for null or undefined), the errors as the
\* executor formatted them and as formatError sent them to the client.
Answer(op, arg, value, thrown, errors) ==
  [op |-> op, arg |-> arg, value |-> value, thrown |-> thrown, errors |-> errors]
NoResponse == Answer("none", <<>>, NoValue, <<>>, <<>>)

\* The GraphQLError Query.user throws for the requested id, as a formatted
\* error: message, extensions and the path of the field.
UserNotExists(id) ==
  [message |-> <<"User with ID ">> \o id
                 \o <<" not exists in the FakeData.js database">>,
   extensions |-> [code |-> "USER_NOT_EXISTS", userId |-> id],
   path |-> <<"user">>]

\* The TypeError of reading .id of undefined in createUser, as a formatted
\* error.
CannotReadId ==
  [message |-> <<"Cannot read properties of undefined (reading 'id')">>,
   extensions |-> [code |-> "INTERNAL_SERVER_ERROR"],
   path |-> <<"createUser">>]

\* A formatError that sends the message alone.
formatErrorMessageOnly(formattedError) ==
  IF formattedError.extensions.code = "USER_NOT_EXISTS"
  THEN [message |-> <<"User with ID ">> \o formattedError.extensions.userId
                      \o <<" not exists">>]
  ELSE formattedError

\* The formatError hook of the server.
formatError(formattedError) ==
  IF formattedError.extensions.code = "USER_NOT_EXISTS"
  THEN [formattedError EXCEPT
          !.message = <<"User with ID ">> \o formattedError.extensions.userId
                        \o <<" not exists">>]
  ELSE formattedError

\* The errors of a response, each passed through formatError.
Formatted(errs) == [i \in 1..Len(errs) |-> formatError(errs[i])]

\* _.find(UserList, { id }): the first element with that id, 0 for undefined.
FindUser(id) ==
  IF \E i \in 1..Len(UserList) : objects[UserList[i]].id = id
  THEN UserList[CHOOSE i \in 1..Len(UserList) :
                  /\ objects[UserList[i]].id = id
                  /\ \A j \in 1..(i - 1) : objects[UserList[j]].id # id]
  ELSE 0

\* A Query.user that returns the undefined of _.find.
QueryUserNull(id) ==
  LET user == FindUser(Number(id))
  IN Answer("user", id, IF user = 0 THEN Missing ELSE Entity(user), <<>>, <<>>)

\* Query.user(id): the user found, or the thrown USER_NOT_EXISTS error.
QueryUser(id) ==
  LET user == FindUser(Number(id))
  IN IF user = 0
     THEN Answer("user", id, NoValue, <<UserNotExists(id)>>,
                 Formatted(<<UserNotExists(id)>>))
     ELSE Answer("user", id, Entity(user), <<>>, <<>>)

\* ------------------------------------------------------------------ actions

\* Ids a client sends as the id argument of user, and of deleteUser and
\* updateUsername: users with friends and no user; a friend and
\* no user.
QueryIds == {<<"1">>, <<"4">>, <<"9">>}
MutationIds == {<<"2">>, <<"9">>}

\* The state after the modules are loaded, UserList holding users.
InitWith(users) ==
  /\ objects = users
  /\ UserList = [i \in 1..Len(users) |-> i]
  /\ batches = <<>>
  /\ loaderBatch = 0
  /\ cacheMap = <<>>
  /\ promises = <<>>
  /\ scheduled = <<>>
  /\ inflight = <<>>
  /\ calls = <<>>
  /\ dispatchLog = <<>>
  /\ fetchLog = <<>>
  /\ nQueries = 0
  /\ nMut = 0
  /\ response = NoResponse

\* What the clients send in a run: so many query fields with a friends
\* selection and so many mutations.
Budget(q, m) == [queries |-> q, mutations |-> m]

Init == InitWith(FakeUsers) /\ budget = Budget(MaxQueries, MaxMutations)

\* query { users { ... on User { friends { .. } } } }: Query.users returns
\* UserList and the executor runs User.friends for every User of it.
UsersQuery ==
  /\ nQueries < budget.queries
  /\ inflight = <<>>
  /\ LET q == nQueries + 1
         R == friendsOfEach([S |-> LoaderState, calls |-> calls], UserList, 1, q)
     IN /\ SetLoader(R.S)
        /\ calls' = PromiseAll(R.calls, R.S.promises)
        /\ nQueries' = q
  /\ UNCHANGED <<dataVars, inflight, logVars, nMut, budget, response>>

\* query { user(id) { friends { .. } } }: Query.user finds the user or throws
\* the USER_NOT_EXISTS error; User.friends runs for the user found.
UserQuery(id) ==
  /\ nQueries < budget.queries
  /\ inflight = <<>>
  /\ LET q == nQueries + 1
         user == FindUser(Number(id))
         R0 == [S |-> LoaderState, calls |-> calls]
         R == IF user = 0 THEN R0 ELSE friends(R0, user, q, "user")
     IN /\ SetLoader(R.S)
        /\ calls' = PromiseAll(R.calls, R.S.promises)
        /\ nQueries' = IF user = 0 THEN nQueries ELSE q
        /\ response' = QueryUser(id)
  /\ UNCHANGED <<dataVars, inflight, logVars, nMut, budget>>

\* The nested friends field of a friend: User.friends runs for an entity a
\* settled friends call resolved to.
NestedFriends(c, i) ==
  /\ nQueries < budget.queries
  /\ calls[c].settled
  /\ calls[c].result[i].kind = "entity"
  /\ LET q == nQueries + 1
         parent == calls[c].result[i].ref
         R == friends([S |-> LoaderState, calls |-> calls], parent, q, "friends")
     IN /\ SetLoader(R.S)
        /\ calls' = PromiseAll(R.calls, R.S.promises)
        /\ nQueries' = q
  /\ UNCHANGED <<dataVars, inflight, logVars, nMut, budget, response>>

\* A dispatch whose batch function takes the users found out of UserList
\* (_.remove in place of filter).
DispatchRemoving ==
  /\ scheduled # <<>>
  /\ inflight = <<>>
  /\ LET b == Head(scheduled)
         batch == batches[b]
     IN /\ scheduled' = Tail(scheduled)
        /\ batches' = [batches EXCEPT ![b].hasDispatched = TRUE]
        /\ dispatchLog' = Append(dispatchLog, b)
        /\ IF batch.keys = <<>>
           THEN /\ promises' = resolveCacheHits(promises, batch)
                /\ UNCHANGED <<inflight, fetchLog, UserList>>
           ELSE /\ promises' = promises
                /\ inflight' = <<[batch |-> b, values |-> getUsersByIds(batch.keys)]>>
                /\ fetchLog' = Append(fetchLog,
                                 [batch |-> b, ids |-> batch.keys,
                                  values |-> getUsersByIds(batch.keys)])
                /\ UserList' = SelectSeq(UserList,
                                 LAMBDA o : objects[o].id \notin Range(batch.keys))
        /\ calls' = PromiseAll(calls, promises')
  /\ UNCHANGED <<objects, loaderBatch, cacheMap, nQueries, nMut, budget, response>>

\* The scheduled dispatchBatch(loader, batch): marks the batch dispatched;
\* with no key to load it resolves the cache hits and is done; otherwise it
\* calls getUsersByIds(batch.keys) once, whose filter runs at the call.
Dispatch ==
  /\ scheduled # <<>>
  /\ inflight = <<>>
  /\ LET b == Head(scheduled)
         batch == batches[b]
     IN /\ scheduled' = Tail(scheduled)
        /\ batches' = [batches EXCEPT ![b].hasDispatched = TRUE]
        /\ dispatchLog' = Append(dispatchLog, b)
        /\ IF batch.keys = <<>>
           THEN /\ promises' = resolveCacheHits(promises, batch)
                /\ UNCHANGED <<inflight, fetchLog>>
           ELSE /\ promises' = promises
                /\ inflight' = <<[batch |-> b, values |-> getUsersByIds(batch.keys)]>>
                /\ fetchLog' = Append(fetchLog,
                                 [batch |-> b, ids |-> batch.keys,
                                  values |-> getUsersByIds(batch.keys)])
        /\ calls' = PromiseAll(calls, promises')
  /\ UNCHANGED <<dataVars, loaderBatch, cacheMap, nQueries, nMut,
                 budget, response>>

\* The then-callback of the batch promise: a result whose length differs from
\* the number of keys throws the TypeError that failedDispatch hands to every
\* callback of the batch, clearing the batch's keys from the cache; otherwise
\* the cache hits and then the callbacks are resolved, position by position.
Settle ==
  /\ inflight # <<>>
  /\ LET b == inflight[1].batch
         values == inflight[1].values
         batch == batches[b]
     IN IF Len(values) # Len(batch.keys)
        THEN /\ promises' = RejectCallbacks(resolveCacheHits(promises, batch),
                                            batch, Failure(b))
             /\ cacheMap' = MapDelete(cacheMap, Range(batch.keys))
        ELSE /\ promises' = ResolveCallbacks(resolveCacheHits(promises, batch),
                                             batch, values)
             /\ cacheMap' = cacheMap
  /\ inflight' = <<>>
  /\ calls' = PromiseAll(calls, promises')
  /\ UNCHANGED <<dataVars, batches, loaderBatch, scheduled, logVars, nQueries, nMut,
                 budget, response>>

\* Between requests, and between the serially executed fields of a mutation
\* request, no batch is waiting for its dispatch or its result.
LoaderIdle == scheduled = <<>> /\ inflight = <<>>

\* Inputs a client sends to createUser (CreateUserInput) and updateUsername.
CreateInputs ==
  {[name |-> "Ann", username |-> "ann", age |-> 30, nationality |-> "BRAZIL"]}
NewUsernames == {"renamed"}

\* A createUser that takes the length of UserList plus one as the id.
createUserByLength(input) ==
  /\ nMut < budget.mutations
  /\ LoaderIdle
  /\ LET user == [k \in DOMAIN input \cup {"id"} |->
                    IF k = "id" THEN Len(UserList) + 1 ELSE input[k]]
     IN /\ objects' = Append(objects, user)
        /\ UserList' = Append(UserList, Len(objects) + 1)
        /\ response' = Answer("createUser", input, Entity(Len(objects) + 1),
                              <<>>, <<>>)
  /\ nMut' = nMut + 1
  /\ UNCHANGED <<loaderVars, inflight, calls, logVars, nQueries, budget>>

\* Mutation.createUser: the input object gets the id after the last user's and
\* is pushed; reading .id of the last element of an empty UserList throws.
createUser(input) ==
  /\ nMut < budget.mutations
  /\ LoaderIdle
  /\ IF UserList = <<>>
     THEN /\ UNCHANGED dataVars
          /\ response' = Answer("createUser", input, Missing, <<CannotReadId>>,
                                Formatted(<<CannotReadId>>))
     ELSE LET lastId == objects[UserList[Len(UserList)]].id
              user == [k \in DOMAIN input \cup {"id"} |->
                         IF k = "id" THEN lastId + 1 ELSE input[k]]
          IN /\ objects' = Append(objects, user)
             /\ UserList' = Append(UserList, Len(objects) + 1)
             /\ response' = Answer("createUser", input,
                                   Entity(Len(objects) + 1), <<>>, <<>>)
  /\ nMut' = nMut + 1
  /\ UNCHANGED <<loaderVars, inflight, calls, logVars, nQueries, budget>>

\* An updateUsername whose loop has no test of the id: every user of UserList
\* gets the new username and the last one is returned.
updateUsernameAll(id, newUsername) ==
  /\ nMut < budget.mutations
  /\ LoaderIdle
  /\ objects' = [o \in 1..Len(objects) |->
                   IF o \in Range(UserList)
                   THEN [objects[o] EXCEPT !.username = newUsername]
                   ELSE objects[o]]
  /\ response' = Answer("updateUsername",
                        [id |-> id, newUsername |-> newUsername],
                        IF UserList = <<>> THEN Missing
                        ELSE Entity(UserList[Len(UserList)]), <<>>, <<>>)
  /\ nMut' = nMut + 1
  /\ UNCHANGED <<UserList, loaderVars, inflight, calls, logVars, nQueries,
                 budget>>

\* Mutation.updateUsername: every user of UserList with that id gets the new
\* username, in place.
updateUsername(id, newUsername) ==
  /\ nMut < budget.mutations
  /\ LoaderIdle
  /\ objects' = [o \in 1..Len(objects) |->
                   IF o \in Range(UserList) /\ objects[o].id = Number(id)
                   THEN [objects[o] EXCEPT !.username = newUsername]
                   ELSE objects[o]]
  /\ LET hits == {i \in 1..Len(UserList) :
                    objects[UserList[i]].id = Number(id)}
         userUpdated == IF hits = {} THEN Missing
                        ELSE Entity(UserList[CHOOSE i \in hits :
                                               \A j \in hits : j <= i])
     IN response' = Answer("updateUsername",
                           [id |-> id, newUsername |-> newUsername],
                           userUpdated, <<>>, <<>>)
  /\ nMut' = nMut + 1
  /\ UNCHANGED <<UserList, loaderVars, inflight, calls, logVars, nQueries,
                 budget>>

\* A deleteUser that compares user.id with the id string itself: the number
\* never equals the string, nothing is removed.
deleteUserStrict(id) ==
  /\ nMut < budget.mutations
  /\ LoaderIdle
  /\ UserList' = UserList
  /\ response' = Answer("deleteUser", id, Missing, <<>>, <<>>)
  /\ nMut' = nMut + 1
  /\ UNCHANGED <<objects, loaderVars, inflight, calls, logVars, nQueries,
                 budget>>

\* Mutation.deleteUser: _.remove takes every user with that id out of
\* UserList; the objects themselves live on where they are referenced.
deleteUser(id) ==
  /\ nMut < budget.mutations
  /\ LoaderIdle
  /\ UserList' = SelectSeq(UserList, LAMBDA o : objects[o].id # Number(id))
  /\ response' = Answer("deleteUser", id, Missing, <<>>, <<>>)
  /\ nMut' = nMut + 1
  /\ UNCHANGED <<objects, loaderVars, inflight, calls, logVars, nQueries,
                 budget>>

Next ==
  \/ \E input \in CreateInputs : createUser(input)
  \/ \E id \in MutationIds : \E n \in NewUsernames : updateUsername(id, n)
  \/ \E id \in MutationIds : deleteUser(id)
  \/ UsersQuery
  \/ \E id \in QueryIds : UserQuery(id)
  \/ \E c \in 1..Len(calls) : \E i \in 1..Len(calls[c].result) : NestedFriends(c, i)
  \/ Dispatch
  \/ Settle

Spec == Init /\ [][Next]_vars

\* The same program over other contents of the data file: two users, the
\* first with a friends list that repeats keys, names a user that does not
\* exist, or is not in UserList order.
FriendLists == {<<1, 3, 2, 1>>, <<2, 1>>, <<1, 1>>, <<2, 3, 2>>}

TestUsers(K) ==
  << [id |-> 1, name |-> "John", username |-> "john", age |-> 20,
      nationality |-> "CANADA", friends |-> K],
     [id |-> 2, name |-> "Pedro", username |-> "PedroTech", age |-> 20,
      nationality |-> "BRAZIL"] >>

InitK ==
  /\ \E K \in FriendLists : InitWith(TestUsers(K))
  /\ budget = Budget(MaxQueriesK, MaxMutations)

SpecK == InitK /\ [][Next]_vars

\* The program with its scheduling: the job queue runs every scheduled
\* dispatch, and the promise of getUsersByIds, an async function over an
\* array filter, is always settled and its then-callback run.
InitLive == InitWith(FakeUsers) /\ budget = Budget(MaxLiveQueries, MaxMutations)

SpecLive == InitLive /\ [][Next]_vars /\ WF_vars(Dispatch) /\ WF_vars(Settle)

\* ------------------------------------------------- requests without friends

\* query { user(id) { name } }: Query.user alone.
PlainUserQuery(id) ==
  /\ response' = QueryUser(id)
  /\ UNCHANGED <<dataVars, loaderVars, inflight, calls, logVars, nQueries,
                 nMut, budget>>

\* query { users { __typename } }: Query.users returns UserList and the
\* executor asks UserAdmin.__resolveType for every element.
PlainUsersQuery ==
  /\ response' = Answer("users", <<>>,
                        [i \in 1..Len(UserList) |->
                           [item |-> UserList[i],
                            type |-> UserAdminResolveType(objects[UserList[i]])]],
                        <<>>, <<>>)
  /\ UNCHANGED <<dataVars, loaderVars, inflight, calls, logVars, nQueries,
                 nMut, budget>>

\* query { movies { __typename } }: Query.movies returns MovieList and the
\* executor asks Movie.__resolveType for every element.
MoviesQuery ==
  /\ response' = Answer("movies", <<>>,
                        [i \in 1..Len(MovieList) |->
                           [item |-> MovieList[i],
                            type |-> MovieResolveType(MovieList[i])]],
                        <<>>, <<>>)
  /\ UNCHANGED <<dataVars, loaderVars, inflight, calls, logVars, nQueries,
                 nMut, budget>>

\* Errors the server raises before a resolver runs, as formatted errors.
RequestErrors ==
  {[message |-> <<"Cannot query field \"nam\" on type \"User\".">>,
    extensions |-> [code |-> "GRAPHQL_VALIDATION_FAILED"],
    locations |-> <<"1:20">>],
   [message |-> <<"Variable \"$id\" of required type \"ID!\" was not provided.">>,
    extensions |-> [code |-> "BAD_USER_INPUT"],
    locations |-> <<"1:12">>]}

\* A request the server rejects: its error goes through formatError.
FailedRequest(e) ==
  /\ response' = Answer("request", <<>>, NoValue, <<e>>, Formatted(<<e>>))
  /\ UNCHANGED <<dataVars, loaderVars, inflight, calls, logVars, nQueries,
                 nMut, budget>>

\* Ids a client sends in requests without a friends selection: the first and
\* the last user, the id of no user (of the user createUser adds), an id
\* with a leading zero, a string that is no number and the empty string.
DataIds == {<<"1">>, <<"8">>, <<"9">>, <<"0", "8">>, <<"x">>, <<>>}

InitData == InitWith(FakeUsers) /\ budget = Budget(0, MaxDataMutations)

NextData ==
  \/ \E input \in CreateInputs : createUser(input)
  \/ \E id \in DataIds : \E n \in NewUsernames : updateUsername(id, n)
  \/ \E id \in DataIds : deleteUser(id)
  \/ \E id \in DataIds : PlainUserQuery(id)
  \/ PlainUsersQuery
  \/ MoviesQuery
  \/ \E e \in RequestErrors : FailedRequest(e)

SpecData == InitData /\ [][NextData]_vars

\* Runs in which clients delete users, up to all of them, and create users.
DrainIds == {<<"1">>, <<"2">>, <<"3">>, <<"4">>, <<"5">>, <<"6">>, <<"7">>,
             <<"8">>}

InitDrain == InitWith(FakeUsers) /\ budget = Budget(0, MaxDrainMutations)

NextDrain ==
  \/ \E input \in CreateInputs : createUser(input)
  \/ \E id \in DrainIds : deleteUser(id)

SpecDrain == InitDrain /\ [][NextDrain]_vars

\* ------------------------------------------------------------------ claims

LoadedCalls == {c \in 1..Len(calls) : calls[c].loaded}
SettledCalls == {c \in LoadedCalls : calls[c].settled}
Batches == 1..Len(batches)

\* The getUsersByIds invocations made for batch b.
FetchesOf(b) == {n \in 1..Len(fetchLog) : fetchLog[n].batch = b}

\* The places a promise is registered at: a callback or a cache hit of a batch.
Registrations(p) ==
  {r \in Batches \X {"callback"} \X (1..Len(promises)) :
     r[3] <= Len(batches[r[1]].callbacks) /\ batches[r[1]].callbacks[r[3]] = p}
  \cup
  {r \in Batches \X {"cacheHit"} \X (1..Len(promises)) :
     r[3] <= Len(batches[r[1]].cacheHits) /\ batches[r[1]].cacheHits[r[3]].handle = p}

\* The promise a handle takes its result from: the cached promise for a cache
\* hit, the handle itself otherwise.
SourceOf(p) ==
  IF \E b \in Batches : \E j \in 1..Len(batches[b].cacheHits) :
       batches[b].cacheHits[j].handle = p
  THEN LET b == CHOOSE b \in Batches : \E j \in 1..Len(batches[b].cacheHits) :
                  batches[b].cacheHits[j].handle = p
           j == CHOOSE j \in 1..Len(batches[b].cacheHits) :
                  batches[b].cacheHits[j].handle = p
       IN batches[b].cacheHits[j].cached
  ELSE p

\* A batch whose flush is over: dispatched, and its result consumed.
Flushed(b) ==
  /\ batches[b].hasDispatched
  /\ (inflight = <<>> \/ inflight[1].batch # b)

NoRepeat(seq) == \A i, j \in 1..Len(seq) : seq[i] = seq[j] => i = j

\* C3: for every key sequence K handed to loadMany by User.friends, K with
\* repeated keys included, the settled result has the length of K and its
\* i-th element is the settled value of the promise the loader holds for K[i].
C3_ResultHasLengthAndOrderOfKeys ==
  \A c \in SettledCalls :
    /\ Len(calls[c].result) = Len(calls[c].keys)
    /\ \A i \in 1..Len(calls[c].keys) :
         /\ i <= Len(calls[c].handles)
         /\ LET q == SourceOf(calls[c].handles[i])
            IN /\ promises[q].key = calls[c].keys[i]
               /\ promises[q].state # "pending"
               /\ calls[c].result[i] = promises[q].value

\* A settled call whose key sequence repeats a key and also holds another key.
C3_Witness ==
  \E c \in SettledCalls :
    /\ \E i, j \in 1..Len(calls[c].keys) :
         i < j /\ calls[c].keys[i] = calls[c].keys[j]
    /\ \E i, j \in 1..Len(calls[c].keys) : calls[c].keys[i] # calls[c].keys[j]
    /\ \E i \in 1..Len(calls[c].result) : calls[c].result[i].kind = "entity"

\* C8: the key list of every getUsersByIds invocation holds each key at most
\* once, and once a batch is flushed every request registered in it, a
\* repeated one too, is settled with the value of its key's promise.
C8_FetchKeysDistinctAndEachRequestServed ==
  /\ \A n \in 1..Len(fetchLog) : NoRepeat(fetchLog[n].ids)
  /\ \A b \in Batches :
       Flushed(b) =>
         /\ \A j \in 1..Len(batches[b].callbacks) :
              promises[batches[b].callbacks[j]].state # "pending"
         /\ \A j \in 1..Len(batches[b].cacheHits) :
              LET h == batches[b].cacheHits[j]
              IN /\ StateOf(promises, h.handle) = promises[h.cached].state
                 /\ StateOf(promises, h.handle) # "pending"
                 /\ ValueOf(promises, h.handle) = promises[h.cached].value
                 /\ promises[h.cached].key = promises[h.handle].key

\* A flushed batch with a fetch in which one key was requested by two calls
\* and twice by one call.
C8_Witness ==
  \E b \in Batches :
    /\ Flushed(b)
    /\ FetchesOf(b) # {}
    /\ \E c1, c2 \in SettledCalls :
         /\ c1 # c2 /\ calls[c1].batch = b /\ calls[c2].batch = b
         /\ \E i, j \in 1..Len(calls[c1].keys) :
              /\ i < j /\ calls[c1].keys[i] = calls[c1].keys[j]
              /\ calls[c1].keys[i] \in Range(calls[c2].keys)
              /\ calls[c1].keys[i] \in Range(batches[b].keys)

\* C9: a batch is dispatched at most once, every handle is registered in
\* exactly one batch, which is the open batch of its call, and a call made
\* after a dispatch registers in a batch that was not dispatched before.
C9_BatchDispatchedOnce ==
  /\ NoRepeat(dispatchLog)
  /\ \A b \in Batches : batches[b].hasDispatched <=> b \in Range(dispatchLog)
  /\ \A b \in Batches : ~batches[b].hasDispatched => b \in Range(scheduled)
  /\ \A p \in 1..Len(promises) : Cardinality(Registrations(p)) = 1
  /\ \A c \in LoadedCalls :
       /\ calls[c].batch \notin calls[c].seen.dispatched
       /\ \A i \in 1..Len(calls[c].handles) :
            \A r \in Registrations(calls[c].handles[i]) : r[1] = calls[c].batch

\* Two batches were dispatched, the second holding a call made after the
\* first one's dispatch, and that call is settled.
C9_Witness ==
  /\ Len(dispatchLog) >= 2
  /\ \E c \in SettledCalls :
       /\ calls[c].seen.dispatched # {}
       /\ calls[c].batch \in Range(dispatchLog)


\* The value at position i of call c is the user whose id is the i-th key.
OwnUserAt(c, i) ==
  /\ calls[c].result[i].kind = "entity"
  /\ objects[calls[c].result[i].ref].id = calls[c].keys[i]

\* The batches whose flush was over when call c was made.
FlushedBefore(c) == calls[c].seen.dispatched \ {calls[c].seen.inflight}

\* C1: every requested key (a repeated one too) whose user is in UserList
\* resolves with the user whose id equals the key, whatever the order of the
\* users getUsersByIds returns.
C1_KeyResolvesToItsOwnUser ==
  \A c \in SettledCalls :
    \A i \in 1..Len(calls[c].keys) :
      calls[c].seen.exists[i] => OwnUserAt(c, i)

\* C2: a requested key without a user in UserList resolves to the
\* missing-indicator, never to a failure, and the keys of the same batch that
\* have a user still resolve with their own users.
C2_MissingKeyIsNotAFailure ==
  \A c \in SettledCalls :
    \A i \in 1..Len(calls[c].keys) :
      ~calls[c].seen.exists[i] =>
        /\ calls[c].result[i] = Missing
        /\ \A d \in SettledCalls :
             \A j \in 1..Len(calls[d].keys) :
               (calls[d].batch = calls[c].batch /\ calls[d].seen.exists[j])
                 => OwnUserAt(d, j)

\* C4: a lookup of a key made after the flush of an earlier cycle that looked
\* the same key up causes a getUsersByIds invocation of its own cycle for
\* that key.
C4_LaterCycleFetchesAgain ==
  \A c \in SettledCalls :
    \A i \in 1..Len(calls[c].keys) :
      (\E d \in LoadedCalls :
         /\ calls[d].batch \in FlushedBefore(c)
         /\ calls[c].keys[i] \in Range(calls[d].keys))
      => \E n \in FetchesOf(calls[c].batch) :
           calls[c].keys[i] \in Range(fetchLog[n].ids)

\* C5: every dispatched batch has caused exactly one getUsersByIds
\* invocation.
C5_ExactlyOneFetchPerCycle ==
  \A b \in Range(dispatchLog) : Cardinality(FetchesOf(b)) = 1

\* The friends calls of the n-th query when it is a users query.
UsersQueryCalls(n) ==
  {c \in LoadedCalls : calls[c].query = n /\ calls[c].field = "users"}

\* C6: the friends calls of one users query all register in one batch, and
\* the dispatch of that batch executes getUsersByIds once, for the collected
\* friend ids.
C6_UsersQueryCausesOneFetch ==
  \A n \in 1..nQueries :
    \A c \in UsersQueryCalls(n) :
      /\ \A d \in UsersQueryCalls(n) : calls[d].batch = calls[c].batch
      /\ calls[c].batch \in Range(dispatchLog) =>
           /\ Cardinality(FetchesOf(calls[c].batch)) = 1
           /\ \A m \in FetchesOf(calls[c].batch) :
                Range(calls[c].keys) \subseteq Range(fetchLog[m].ids)

\* A batch whose getUsersByIds result was refused, the flush being over.
FailedBatch(b) ==
  /\ Flushed(b)
  /\ \E n \in FetchesOf(b) : Len(fetchLog[n].values) # Len(fetchLog[n].ids)

\* C7: when the bulk fetch of a cycle fails, every request registered in that
\* cycle is settled with that failure and none of them with a user.
C7_FailureReachesEveryHandle ==
  \A b \in Batches :
    FailedBatch(b) =>
      \A c \in LoadedCalls :
        calls[c].batch = b =>
          /\ calls[c].settled
          /\ \A i \in 1..Len(calls[c].result) : calls[c].result[i] = Failure(b)

Handles == 1..Len(promises)

\* A dispatch is waiting in the job queue, a batch is in flight, or a handle
\* or a friends call is not settled.
PendingWork ==
  \/ scheduled # <<>>
  \/ inflight # <<>>
  \/ \E p \in Handles : StateOf(promises, p) = "pending"
  \/ \E c \in LoadedCalls : ~calls[c].settled

\* Every batch has been dispatched, and every handle is resolved with an
\* entity, a not-found indicator or the failure of a batch.
AllFlushedAndResolved ==
  /\ ~PendingWork
  /\ \A b \in Batches : Flushed(b)
  /\ \A p \in Handles :
        /\ StateOf(promises, p) \in {"fulfilled", "rejected"}
        /\ ValueOf(promises, p).kind \in {"entity", "missing", "error"}

\* C11: every scheduled flush eventually runs and every handle registered in
\* its batch is eventually resolved with an entity, a not-found indicator or
\* a propagated failure: whenever a flush is scheduled or a handle is
\* pending, a moment follows at which every batch has been flushed and no
\* handle is pending.
C11_EveryFlushRunsAndEveryHandleIsResolved == PendingWork ~> AllFlushedAndResolved

\* A run in which a cache-hit handle and a callback were resolved with a user
\* and the callbacks of a failed batch with its failure.
C11_Witness ==
  /\ AllFlushedAndResolved
  /\ \E p \in Handles : promises[p].follows # 0
                         /\ ValueOf(promises, p).kind = "entity"
  /\ \E p \in Handles : promises[p].follows = 0
                         /\ promises[p].state = "fulfilled"
  /\ \E p \in Handles : StateOf(promises, p) = "rejected"
                         /\ ValueOf(promises, p).kind = "error"

\* The handles load(key) returned in the cycle of batch b, to whichever
\* caller: the callbacks and the cache hits of the batch for that key.
LoadsOf(b, key) ==
  {p \in Range(batches[b].callbacks) : promises[p].key = key}
  \cup {batches[b].cacheHits[j].handle : j \in
          {j \in 1..Len(batches[b].cacheHits) :
             promises[batches[b].cacheHits[j].handle].key = key}}

\* C12: loadMany(K) gives, position by position, the outcome load(K[i]) has in
\* the same cycle: the i-th handle of the call is a load of K[i] registered in
\* the call's batch, every load of K[i] in that batch is settled with the
\* call's i-th result, and the result is the failure exactly when that load
\* was rejected; for found keys, missing keys and a failed fetch alike.
C12_LoadManyIsLoadPerPosition ==
  \A c \in SettledCalls :
    /\ Len(calls[c].handles) = Len(calls[c].keys)
    /\ Len(calls[c].result) = Len(calls[c].keys)
    /\ \A i \in 1..Len(calls[c].keys) :
         /\ calls[c].handles[i] \in LoadsOf(calls[c].batch, calls[c].keys[i])
         /\ \A p \in LoadsOf(calls[c].batch, calls[c].keys[i]) :
              /\ StateOf(promises, p) # "pending"
              /\ ValueOf(promises, p) = calls[c].result[i]
              /\ (StateOf(promises, p) = "rejected")
                   <=> (calls[c].result[i].kind = "error")

\* A call whose fetch failed over a missing key, with a key requested twice,
\* and a later call that got users.
C12_Witness ==
  /\ \E c \in SettledCalls : \E i, j \in 1..Len(calls[c].keys) :
        /\ i < j /\ calls[c].keys[i] = calls[c].keys[j]
        /\ calls[c].result[i].kind = "error"
        /\ \E k \in 1..Len(calls[c].keys) : ~calls[c].seen.exists[k]
  /\ \E c \in SettledCalls : \E i \in 1..Len(calls[c].keys) :
        calls[c].result[i].kind = "entity"

\* C13: a key whose user deleteUser removed resolves, in every later friends
\* lookup, as a key that never had a user does, and never to the deleted
\* user: where UserList holds no user with the key when the call is made,
\* the call's result at the key's position is not a user.
C13_DeletedUserIsNeverReturned ==
  \A c \in SettledCalls : \A i \in 1..Len(calls[c].keys) :
    ~calls[c].seen.exists[i] => calls[c].result[i].kind # "entity"

\* C14: the batched lookup only reads the backing collection: every step
\* that registers keys through User.friends, dispatches a batch, runs
\* getUsersByIds or settles handles leaves UserList and the user objects
\* (elements, fields, order) as they were.
C14_LookupLeavesUserListUnchanged ==
  [][(loaderVars' # loaderVars \/ inflight' # inflight \/ calls' # calls
      \/ logVars' # logVars)
     => (UserList' = UserList /\ objects' = objects)]_vars

\* Keys were registered, a batch was flushed through getUsersByIds and a call
\* settled, with UserList as the data file has it.
C14_Witness ==
  /\ fetchLog # <<>>
  /\ \E c \in SettledCalls : calls[c].keys # <<>>
  /\ \E b \in Batches : Flushed(b) /\ FetchesOf(b) # {}
  /\ objects = FakeUsers
  /\ UserList = [i \in 1..Len(FakeUsers) |-> i]

\* The elements of UserList whose id is n.
UsersWithId(n) == {o \in Range(UserList) : objects[o].id = n}

\* C15: Query.user(id) returns the element of UserList whose id equals
\* Number(id) when there is one; when there is none it throws one error with
\* extensions.code "USER_NOT_EXISTS" and extensions.userId the requested id,
\* and it never returns a null user.
C15_UserFoundOrUserNotExists ==
  response.op = "user" =>
    /\ response.value.kind # "missing"
    /\ IF UsersWithId(Number(response.arg)) # {}
       THEN /\ response.value.kind = "entity"
            /\ response.value.ref \in UsersWithId(Number(response.arg))
            /\ response.thrown = <<>>
       ELSE /\ response.value = NoValue
            /\ Len(response.thrown) = 1
            /\ response.thrown[1].extensions.code = "USER_NOT_EXISTS"
            /\ response.thrown[1].extensions.userId = response.arg

\* Query.user threw for the id "08" after user 8 was deleted.
C15_Witness ==
  /\ response.op = "user"
  /\ response.arg = <<"0", "8">>
  /\ Number(response.arg) = 8
  /\ UsersWithId(8) = {}
  /\ response.thrown # <<>>
  /\ response.thrown[1].extensions.userId = <<"0", "8">>

\* C16: formatError replaces the message of every error whose
\* extensions.code is "USER_NOT_EXISTS" with "User with ID <userId> not
\* exists" and keeps every other field; an error with another code is
\* returned unchanged.
C16_FormatErrorRewritesOnlyUserNotExists ==
  /\ Len(response.errors) = Len(response.thrown)
  /\ \A i \in 1..Len(response.thrown) :
       LET e == response.thrown[i]
           f == response.errors[i]
       IN IF e.extensions.code = "USER_NOT_EXISTS"
          THEN /\ f.message = <<"User with ID ">> \o e.extensions.userId
                                \o <<" not exists">>
               /\ DOMAIN f = DOMAIN e
               /\ \A k \in DOMAIN e \ {"message"} : f[k] = e[k]
          ELSE f = e

\* The server sent a USER_NOT_EXISTS error whose message formatError
\* replaced.
C16_Witness ==
  /\ response.thrown # <<>>
  /\ response.thrown[1].extensions.code = "USER_NOT_EXISTS"
  /\ response.errors[1].message # response.thrown[1].message
  /\ response.errors[1].extensions.userId = response.arg

\* C17: UserAdmin.__resolveType gives an element of UserList "Admin" exactly
\* when the element has a role property and "User" otherwise: after any
\* sequence of mutations every element the users query returns has exactly
\* one of the two member types of the union.
C17_EveryUserIsAdminOrUser ==
  /\ \A o \in Range(UserList) :
       /\ UserAdminResolveType(objects[o]) \in {"Admin", "User"}
       /\ (UserAdminResolveType(objects[o]) = "Admin")
            <=> ("role" \in DOMAIN objects[o])
  /\ response.op = "users" =>
       /\ Len(response.value) = Len(UserList)
       /\ \A i \in 1..Len(UserList) :
            /\ response.value[i].item = UserList[i]
            /\ response.value[i].type \in {"Admin", "User"}
            /\ (response.value[i].type = "Admin")
                 <=> ("role" \in DOMAIN objects[UserList[i]])

\* The users query answered after mutations, with Admins, Users and a created
\* user in the list.
C17_Witness ==
  /\ response.op = "users"
  /\ nMut > 1
  /\ Len(UserList) > Len(FakeUsers)
  /\ \E i \in 1..Len(response.value) : response.value[i].type = "Admin"
  /\ \E i \in 1..Len(response.value) : response.value[i].type = "User"

\* C18: Movie.__resolveType gives an element of MovieList "TvMovie" exactly
\* when it has a yearFirstAired property and "TheaterMovie" otherwise, and
\* every element has the non-null field of the type it is resolved to:
\* yearFirstAired for a TvMovie, isInTheaters for a TheaterMovie.
C18_EveryMovieHasTheFieldOfItsType ==
  response.op = "movies" =>
    /\ Len(response.value) = Len(MovieList)
    /\ \A i \in 1..Len(MovieList) :
         LET movie == MovieList[i]
             type == response.value[i].type
         IN /\ response.value[i].item = movie
            /\ type \in {"TvMovie", "TheaterMovie"}
            /\ (type = "TvMovie") <=> ("yearFirstAired" \in DOMAIN movie)
            /\ type = "TvMovie" => "yearFirstAired" \in DOMAIN movie
            /\ type = "TheaterMovie" => "isInTheaters" \in DOMAIN movie

\* The movies query answered with movies of both types.
C18_Witness ==
  /\ response.op = "movies"
  /\ \E i \in 1..Len(response.value) : response.value[i].type = "TvMovie"
  /\ \E i \in 1..Len(response.value) : response.value[i].type = "TheaterMovie"

\* The position of an element in UserList, and in UserList after the step.
PosOf(list, o) == CHOOSE i \in 1..Len(list) : list[i] = o

\* C19: createUser(input) returns the newly created user: the input gets the
\* id of the last element of UserList plus one and is appended as the new
\* last element; the elements there were, and their order, are unchanged.
C19_CreateUserAppendsWithNextId ==
  [][(nMut' = nMut + 1 /\ response'.op = "createUser")
     => /\ response'.value.kind = "entity"
        /\ UserList # <<>>
        /\ UserList' = Append(UserList, response'.value.ref)
        /\ response'.value.ref \notin Range(UserList)
        /\ objects'[response'.value.ref].id
             = objects[UserList[Len(UserList)]].id + 1
        /\ \A k \in DOMAIN response'.arg :
             objects'[response'.value.ref][k] = response'.arg[k]
        /\ \A o \in 1..Len(objects) : objects'[o] = objects[o]]_vars

\* C20: deleteUser(id) removes every user whose id equals Number(id), leaves
\* the other users and their relative order unchanged and returns null; when
\* no user has that id UserList is unchanged, so a second deleteUser of the
\* same id changes nothing.
C20_DeleteUserRemovesExactlyTheId ==
  [][(nMut' = nMut + 1 /\ response'.op = "deleteUser")
     => LET n == Number(response'.arg)
        IN /\ response'.value = Missing
           /\ response'.thrown = <<>>
           /\ objects' = objects
           /\ Len(UserList') = Cardinality(Range(UserList'))
           /\ Range(UserList') = Range(UserList) \ UsersWithId(n)
           /\ \A o1, o2 \in Range(UserList') :
                (PosOf(UserList', o1) < PosOf(UserList', o2))
                  <=> (PosOf(UserList, o1) < PosOf(UserList, o2))
           /\ UsersWithId(n) = {} => UserList' = UserList
           /\ (response.op = "deleteUser" /\ Number(response.arg) = n)
                => UserList' = UserList]_vars

\* deleteUser has removed user 8 and a second mutation, a deleteUser of an
\* id whose number is 8, has left the other users as they were.
C20_Witness ==
  /\ response.op = "deleteUser"
  /\ Number(response.arg) = 8
  /\ nMut = 2
  /\ objects = FakeUsers
  /\ UserList = <<1, 2, 3, 4, 5, 6, 7>>

\* ----------------------------------------------------------- C21 .. C23

\* C21: updateUsername({id, newUsername}) sets the username of the user whose
\* id equals Number(id) to newUsername and returns that user; no other field
\* and no other user changes, nor the length or order of UserList; when no
\* user has that id nothing changes and no user is returned.
C21_UpdateUsernameChangesOnlyThatUsername ==
  [][(nMut' = nMut + 1 /\ response'.op = "updateUsername")
     => LET n == Number(response'.arg.id)
            hit == UsersWithId(n)
        IN /\ UserList' = UserList
           /\ Len(objects') = Len(objects)
           /\ response'.thrown = <<>>
           /\ \A o \in 1..Len(objects) :
                IF o \in hit
                THEN /\ objects'[o].username = response'.arg.newUsername
                     /\ DOMAIN objects'[o] = DOMAIN objects[o]
                     /\ \A k \in DOMAIN objects[o] \ {"username"} :
                          objects'[o][k] = objects[o][k]
                ELSE objects'[o] = objects[o]
           /\ IF hit = {}
              THEN response'.value = Missing /\ objects' = objects
              ELSE /\ response'.value.kind = "entity"
                   /\ response'.value.ref \in hit]_vars

\* updateUsername renamed user 8, sent as the id "08", and returned that
\* user; the other users are as the data file has them.
C21_Witness ==
  /\ response.op = "updateUsername"
  /\ response.arg.id = <<"0", "8">>
  /\ response.value.kind = "entity"
  /\ objects[response.value.ref].id = 8
  /\ objects[response.value.ref].username = response.arg.newUsername
  /\ objects[response.value.ref].username # FakeUsers[8].username
  /\ UserList = [i \in 1..Len(FakeUsers) |-> i]
  /\ \A o \in 1..7 : objects[o] = FakeUsers[o]

\* C22: after any sequence of createUser, updateUsername and deleteUser calls
\* the ids of the elements of UserList are pairwise distinct: the list is
\* strictly increasing in id.
C22_UserListStrictlyIncreasingInId ==
  \A i, j \in 1..Len(UserList) :
    i < j => objects[UserList[i]].id < objects[UserList[j]].id

\* A user was deleted, a user was created with the id after the last one's
\* and a user was renamed.
C22_Witness ==
  /\ nMut = 3
  /\ Len(objects) > Len(FakeUsers)
  /\ Len(UserList) = Len(FakeUsers)
  /\ Range(UserList) \ (1..Len(FakeUsers)) # {}
  /\ \E o \in Range(UserList) : objects[o].username \in NewUsernames

\* The calls a step adds to the call log, and whether the parent of a call
\* has a friends property.
NewCalls == (Len(calls) + 1)..Len(calls')
HasFriends(call) == "friends" \in DOMAIN objects[call.parent]

\* C23: User.friends returns an empty list for a parent that has no friends
\* property without registering a key: every such call is settled with []
\* and holds no handle, and a step that makes only such calls opens no
\* batch, schedules no flush, hands out no promise and causes no
\* getUsersByIds invocation; a batch a step opens holds a key request.
C23_NoFriendsNoLoaderUse ==
  [][/\ \A b \in (Len(batches) + 1)..Len(batches') :
          batches'[b].callbacks # <<>> \/ batches'[b].cacheHits # <<>>
     /\ \A c \in NewCalls :
          ~HasFriends(calls'[c]) =>
            /\ calls'[c].settled
            /\ calls'[c].result = <<>>
            /\ calls'[c].handles = <<>>
     /\ (NewCalls # {} /\ \A c \in NewCalls : ~HasFriends(calls'[c]))
          => /\ batches' = batches
             /\ loaderBatch' = loaderBatch
             /\ scheduled' = scheduled
             /\ promises' = promises
             /\ cacheMap' = cacheMap
             /\ inflight' = inflight
             /\ fetchLog' = fetchLog
             /\ dispatchLog' = dispatchLog]_vars

\* A nested friends field was resolved for a friend without a friends
\* property while the loader had no batch open.
C23_Witness ==
  \E c \in 1..Len(calls) :
    /\ ~HasFriends(calls[c])
    /\ calls[c].field = "friends"
    /\ calls[c].result = <<>>
    /\ calls[c].settled
    /\ scheduled = <<>>
    /\ c = Len(calls)
    /\ Len(batches) = 1

====
